---- MODULE Spec2Model ----
(***************************************************************************)
(* delete-gh-workflows: the interactive deletion loop of                   *)
(* src/delete_gh_workflows/main.py (manage_workflow_runs) driving          *)
(* GitHubWorkflowManager of src/delete_gh_workflows/workflowManager.py.    *)
(*                                                                         *)
(* Text is modelled as a sequence of tokens.  A token is one character,    *)
(* or one of a few fixed multi-character pieces ("(ID: ", "github.com/",   *)
(* ".git", "url = ", ...).  The alphabet is chosen so that a marker the    *)
(* code searches for occurs in the concatenated text exactly where its     *)
(* token occurs: no other token contains "(", "=", or starts a ".git".     *)
(***************************************************************************)
EXTENDS Integers, Sequences, FiniteSets, TLC

VARIABLES
    pc,                   \* position of manage_workflow_runs
    exit_status,          \* process exit status once pc is Exit or Crashed
    exc,                  \* the uncaught exception when pc is Crashed
    repo,                 \* manager.repo
    token,                \* manager.token
    workflows,            \* main.py: workflows
    workflow_choices,     \* main.py: workflow_choices
    selected_workflow,    \* main.py: selected_workflow
    selected_workflow_id, \* main.py: selected_workflow_id
    runs,                 \* main.py: runs (fetched, then sorted in place)
    run_choices,          \* main.py: run_choices
    selected_runs,        \* main.py: selected_runs
    caller,               \* who is inside list_workflow_runs: main or delete_all
    page,                 \* list_workflow_runs: page
    acc,                  \* list_workflow_runs: runs (the accumulator)
    da_runs,              \* delete_all_runs: runs (its own fetch)
    batch,                \* run ids still to delete in the running for loop
    mode,                 \* branch of the inner loop body taken: none, all, selected
    resp,                 \* responses received by the running list_workflow_runs call
    io,                   \* requests, prompts and echoes since the loop turn began
                          \* or the picker last returned
    git_config,           \* .git/config as read by __get_repo_info
    gh                    \* behaviour of the gh CLI seen by __get_gh_token

vars == <<pc, exit_status, exc, repo, token, workflows, workflow_choices,
          selected_workflow, selected_workflow_id, runs, run_choices, selected_runs, caller, page,
          acc, da_runs, batch, mode, resp, io, git_config, gh>>

(***************************************************************************)
(* Bounds of the model.                                                    *)
(***************************************************************************)
MaxPages == 2      \* pages of runs the API serves before an empty page
MaxPageLen == 2    \* runs on one page
MaxSel == 2        \* items toggled in one picker session
MaxPathLen == 3    \* tokens after github.com/ in a remote url

(***************************************************************************)
(* Python values.                                                          *)
(***************************************************************************)
None == [some |-> FALSE, val |-> <<>>]
Some(s) == [some |-> TRUE, val |-> s]
\* Python truthiness of an Optional[str]: None and "" are falsy.
Truthy(x) == x.some /\ x.val # <<>>

Ok(v, msgs) == [kind |-> "ok", val |-> v, exc |-> "", msgs |-> msgs]
Raise(e, msgs) == [kind |-> "raise", val |-> None, exc |-> e, msgs |-> msgs]

(***************************************************************************)
(* str methods, on token sequences.                                        *)
(***************************************************************************)
Whitespace == {" ", "\t", "\n"}

RECURSIVE lstrip(_)
lstrip(s) == IF s # <<>> /\ Head(s) \in Whitespace THEN lstrip(Tail(s)) ELSE s

RECURSIVE rstrip(_)
rstrip(s) ==
    IF s # <<>> /\ s[Len(s)] \in Whitespace
    THEN rstrip(SubSeq(s, 1, Len(s) - 1)) ELSE s

strip(s) == rstrip(lstrip(s))

startswith(s, tok) == s # <<>> /\ Head(s) = tok

\* Index of the first occurrence of tok in s, 0 when there is none.
RECURSIVE FindFrom(_, _, _)
FindFrom(s, tok, i) ==
    IF i > Len(s) THEN 0
    ELSE IF s[i] = tok THEN i ELSE FindFrom(s, tok, i + 1)

find(s, tok) == FindFrom(s, tok, 1)

\* s.split(sep): the list of pieces between the occurrences of sep.
RECURSIVE split(_, _)
split(s, sep) ==
    LET i == find(s, sep) IN
    IF i = 0 THEN <<s>>
    ELSE <<SubSeq(s, 1, i - 1)>> \o split(SubSeq(s, i + 1, Len(s)), sep)

\* s.replace(old, ""): every occurrence of old removed.
RECURSIVE remove_all(_, _)
remove_all(s, old) ==
    IF s = <<>> THEN <<>>
    ELSE IF Head(s) = old THEN remove_all(Tail(s), old)
    ELSE <<Head(s)>> \o remove_all(Tail(s), old)

\* Tokens that hold an "=": line.split("=", 1) cuts inside the first of them,
\* and what follows the "=" inside each is one blank.
EqTokens == {"url = ", "pushurl = ", "fetch = "}

RECURSIVE FindEq(_, _)
FindEq(s, i) ==
    IF i > Len(s) THEN 0
    ELSE IF s[i] \in EqTokens THEN i ELSE FindEq(s, i + 1)

\* line.split("=", 1): one piece when the line holds no "=", else two.
split_eq_1(line) ==
    LET i == FindEq(line, 1) IN
    IF i = 0 THEN <<line>>
    ELSE <<SubSeq(line, 1, i - 1), <<" ">> \o SubSeq(line, i + 1, Len(line))>>

\* str.lower(), token by token.
LowerTok(t) ==
    CASE t = "B" -> "b"
      [] t = "C" -> "c"
      [] t = "Y" -> "y"
      [] t = "N" -> "n"
      [] t = "(ID: " -> "(id: "
      [] OTHER -> t

lower(s) == [i \in 1..Len(s) |-> LowerTok(s[i])]

\* Code point of the first character of a token.
Ord(t) ==
    CASE t = "(id: " -> 40
      [] t = ")" -> 41
      [] t = "1" -> 49
      [] t = "7" -> 55
      [] t = " " -> 32
      [] t = "B" -> 66
      [] t = "C" -> 67
      [] t = "a" -> 97
      [] t = "x" -> 120
      [] t = "b" -> 98
      [] t = "c" -> 99
      [] OTHER -> 0

\* Python's str <=: lexicographic by code point, a prefix first.
RECURSIVE StrLe(_, _)
StrLe(s, t) ==
    IF s = <<>> THEN TRUE
    ELSE IF t = <<>> THEN FALSE
    ELSE IF Head(s) = Head(t) THEN StrLe(Tail(s), Tail(t))
    ELSE Ord(Head(s)) < Ord(Head(t))

DigitChars == <<"0", "1", "2", "3", "4", "5", "6", "7", "8", "9">>

\* str(n) for n >= 0.
RECURSIVE str_int(_)
str_int(n) ==
    IF n < 10 THEN <<DigitChars[n + 1]>>
    ELSE str_int(n \div 10) \o <<DigitChars[(n % 10) + 1]>>

DigitValue(t) == CHOOSE d \in 0..9 : DigitChars[d + 1] = t

RECURSIVE DigitsValue(_)
DigitsValue(s) ==
    IF s = <<>> THEN 0
    ELSE 10 * DigitsValue(SubSeq(s, 1, Len(s) - 1)) + DigitValue(s[Len(s)])

IsDigits(s) ==
    s # <<>> /\ \A i \in 1..Len(s) : \E d \in 1..10 : DigitChars[d] = s[i]

\* int(s): surrounding blanks are ignored, anything but digits raises ValueError.
int_ok(s) == IsDigits(strip(s))
int_val(s) == DigitsValue(strip(s))

\* The multi-character tokens with their last character removed.
ChopTok(t) ==
    CASE t = "(ID: " -> "(ID:"
      [] t = " - Created: " -> " - Created:"
      [] t = " - Status: " -> " - Status:"
      [] t = "2024-01-01T00:00:00Z" -> "2024-01-01T00:00:00"
      [] t = "completed" -> "complete"
      [] OTHER -> ""

MultiChar == {"(ID: ", " - Created: ", " - Status: ", "2024-01-01T00:00:00Z",
              "completed"}

\* s[:-1]
drop_last(s) ==
    IF s = <<>> THEN <<>>
    ELSE IF s[Len(s)] \in MultiChar
         THEN SubSeq(s, 1, Len(s) - 1) \o <<ChopTok(s[Len(s)])>>
         ELSE SubSeq(s, 1, Len(s) - 1)

(***************************************************************************)
(* Observable events: echoes, prompts and HTTP requests.                   *)
(***************************************************************************)
Event(op, text, id, pg, pp, st, answer) ==
    [op |-> op, text |-> text, id |-> id, page |-> pg, per_page |-> pp,
     status |-> st, answer |-> answer]
Echo(text) == Event("echo", text, 0, 0, 0, 0, <<>>)
EchoId(text, id) == Event("echo", text, id, 0, 0, 0, <<>>)
Prompt(text, answer) == Event("prompt", text, 0, 0, 0, 0, answer)
GetWorkflows(st) == Event("GET workflows", "", 0, 0, 0, st, <<>>)
GetRuns(workflow_id, pg, pp, st) == Event("GET runs", "", workflow_id, pg, pp, st, <<>>)
DeleteRun(run_id, st) == Event("DELETE run", "", run_id, 0, 0, st, <<>>)

Echoes(msgs) == [i \in 1..Len(msgs) |-> Echo(msgs[i])]

MsgRepoError == "Error retrieving repo info"
MsgNotAuthenticated ==
    "You are not authenticated with GitHub CLI. Initiating login process..."
MsgTokenFailed == "Failed to retrieve GitHub token."
MsgGhMissing ==
    "GitHub CLI ('gh') is not installed. Please install it to authenticate."
MsgTokenRequired ==
    "GitHub token is required. Please login using 'gh auth login' or provide a token."
MsgNoRepo ==
    "Could not determine repository. Ensure you're in a GitHub repo directory."

(***************************************************************************)
(* GitHubWorkflowManager.__get_repo_info                                   *)
(* A config is [readable, lines]; unreadable stands for a missing .git or  *)
(* config file, where open() raises and the except clause answers None.    *)
(***************************************************************************)
\* The for loop over the lines: the first line whose stripped text starts
\* with "url = " decides; an IndexError on it is caught and answers None.
RECURSIVE scan_lines(_)
scan_lines(lines) ==
    IF lines = <<>> THEN Ok(None, <<>>)
    ELSE IF startswith(strip(Head(lines)), "url = ")
    THEN LET parts == split_eq_1(Head(lines)) IN
         IF Len(parts) < 2 THEN Ok(None, <<MsgRepoError>>)
         ELSE LET url == strip(parts[2])
                  pieces == split(url, "github.com/")
              IN  IF Len(pieces) < 2 THEN Ok(None, <<MsgRepoError>>)
                  ELSE Ok(Some(remove_all(pieces[2], ".git")), <<>>)
    ELSE scan_lines(Tail(lines))

get_repo_info(cfg) ==
    IF ~cfg.readable THEN Ok(None, <<MsgRepoError>>) ELSE scan_lines(cfg.lines)

(***************************************************************************)
(* GitHubWorkflowManager.__get_gh_token                                    *)
(* g is what the gh CLI does: installed, and the exit codes of             *)
(* `gh auth status`, `gh auth login`, `gh auth token` with the latter's    *)
(* standard output.  Only FileNotFoundError is caught.                     *)
(***************************************************************************)
get_gh_token(g) ==
    IF ~g.installed THEN Ok(None, <<MsgGhMissing>>)
    ELSE IF g.status_rc # 0 /\ g.login_rc # 0
    THEN Raise("CalledProcessError", <<MsgNotAuthenticated>>)
    ELSE LET msgs == IF g.status_rc # 0 THEN <<MsgNotAuthenticated>> ELSE <<>> IN
         IF g.token_rc = 0 THEN Ok(Some(strip(g.token_out)), msgs)
         ELSE Ok(None, msgs \o <<MsgTokenFailed>>)

(***************************************************************************)
(* Labels shown in the picker (main.py lines 35 and 58) and the id parsed  *)
(* back from a chosen run label (main.py line 83).                         *)
(***************************************************************************)
workflow_label(w) == w.name \o <<" ", "(ID: ">> \o str_int(w.id) \o <<")">>

run_label(run) ==
    run.name \o <<" - Created: ">> \o run.created_at \o <<" - Status: ">>
        \o run.status \o <<" ", "(ID: ">> \o str_int(run.id) \o <<")">>

\* run.split("(ID: ")[1][:-1], the argument of int()
id_text(label) == drop_last(split(label, "(ID: ")[2])

SentinelExit == <<"Exit">>
SentinelDeleteAll == <<"Delete All Runs">>
SentinelBack == <<"Back">>

(***************************************************************************)
(* The environment: what the GitHub API, the picker and the user can       *)
(* answer.                                                                 *)
(***************************************************************************)
Workflow(id, name) == [id |-> id, name |-> name]
WorkflowRun(id, name) ==
    [id |-> id, name |-> name, created_at |-> <<"2024-01-01T00:00:00Z">>,
     status |-> <<"completed">>]

WorkflowLists ==
    {<<>>, <<Workflow(1, <<"ci">>)>>,
     <<Workflow(1, <<"ci">>), Workflow(2, <<"release">>)>>}

\* The runs the API may report.  Run names are free text (the commit or pull
\* request title), so a name may itself contain "(ID: ".
RunUniverse ==
    {WorkflowRun(1, <<"a">>), WorkflowRun(2, <<"B">>),
     WorkflowRun(12, <<"(ID: ", "1", ")", "(ID: ">>),
     WorkflowRun(3, <<"x", " ", "(ID: ", "7", ")">>)}

Range(s) == {s[i] : i \in 1..Len(s)}
Injective(s) == \A i, j \in 1..Len(s) : s[i] = s[j] => i = j
SeqsUpTo(S, n) == UNION {[1..k -> S] : k \in 0..n}

\* The API lists a workflow's runs newest first, and run ids grow with time:
\* a listing is in descending id order, without repetition.
NewestFirst(p) == \A i, j \in 1..Len(p) : i < j => p[i].id > p[j].id

\* The pages the API may answer with.
RunPages == {p \in SeqsUpTo(RunUniverse, MaxPageLen) : NewestFirst(p)}

\* What the picker may return: distinct lines of its input, in any order.
Selections(choices) ==
    {s \in SeqsUpTo(Range(choices), MaxSel) : Injective(s)}

\* What click.prompt(type=str) may return: it asks again on empty input.
Answers == {<<"y">>, <<"Y">>, <<"n">>, <<"y", "e", "s">>}

HttpOk == 200
HttpNoContent == 204
ListFailures == {500}
DeleteStatuses == {204, 404}

per_page == 100

GhEnvs ==
    [installed : BOOLEAN, status_rc : {0, 1}, login_rc : {0, 1},
     token_rc : {0, 1}, token_out : {<<>>, <<"\n">>, <<"gho_token", "\n">>}]

UrlLine(url) == <<"\t", "url = ">> \o url \o <<"\n">>
SectionLine == <<"[remote \"origin\"]", "\n">>
Config(lines) == [readable |-> TRUE, lines |-> lines]
NoConfig == [readable |-> FALSE, lines |-> <<>>]

\* The configurations the interactive loop is started in.
MainConfigs ==
    {NoConfig,
     Config(<<SectionLine>>),
     Config(<<SectionLine,
              UrlLine(<<"https://", "github.com/", "acme", "/", "widgets", ".git">>)>>)}

\* Remote urls: a host part, owner "acme", a repository name of up to
\* MaxPathLen pieces, and an optional ".git" suffix.
RepoNames == SeqsUpTo({"widgets", ".git", "hub", ".io"}, MaxPathLen)
UrlHosts == {<<"https://", "github.com/">>, <<"https://", "gitlab.com/">>}
Urls ==
    {h \o <<"acme", "/">> \o n \o sfx :
        h \in UrlHosts, n \in RepoNames, sfx \in {<<>>, <<".git">>}}

\* Configs with one remote, and with a second remote listed before it.
Configs ==
    {NoConfig, Config(<<SectionLine>>)}
        \cup {Config(<<SectionLine, UrlLine(u)>>) : u \in Urls}
        \cup {Config(<<SectionLine,
                       UrlLine(<<"https://", "gitlab.com/", "acme", "/", "widgets">>),
                       SectionLine, UrlLine(u)>>) : u \in Urls}

DefaultConfig ==
    Config(<<SectionLine,
             UrlLine(<<"https://", "github.com/", "acme", "/", "widgets", ".git">>)>>)
DefaultGh ==
    [installed |-> TRUE, status_rc |-> 0, login_rc |-> 0, token_rc |-> 0,
     token_out |-> <<"gho_token", "\n">>]

(***************************************************************************)
(* The interactive loop.                                                   *)
(***************************************************************************)
Init ==
    /\ pc = "start"
    /\ exit_status = -1
    /\ exc = ""
    /\ repo = None
    /\ token = None
    /\ workflows = <<>>
    /\ workflow_choices = <<>>
    /\ selected_workflow = <<>>
    /\ selected_workflow_id = 0
    /\ runs = <<>>
    /\ run_choices = <<>>
    /\ selected_runs = <<>>
    /\ caller = "main"
    /\ page = 1
    /\ acc = <<>>
    /\ da_runs = <<>>
    /\ batch = <<>>
    /\ mode = "none"
    /\ resp = <<>>
    /\ io = <<>>
    /\ git_config \in MainConfigs
    /\ gh \in GhEnvs

\* `return` from the click command: the process ends with status 0.
Return(events) ==
    /\ pc' = "Exit"
    /\ exit_status' = 0
    /\ io' = events
    /\ exc' = exc

\* An uncaught exception: traceback, the process ends with status 1.
Crash(e, events) ==
    /\ pc' = "Crashed"
    /\ exit_status' = 1
    /\ exc' = e
    /\ io' = events

\* main.py line 14 and workflowManager.py lines 23-25: the constructor reads
\* the repository, then the token.
Construct(cfg, g) ==
    LET r == get_repo_info(cfg)
        t == get_gh_token(g)
    IN  /\ repo' = r.val
        /\ IF t.kind = "raise"
           THEN /\ Crash(t.exc, Echoes(r.msgs \o t.msgs))
                /\ token' = token
           ELSE /\ token' = t.val
                /\ pc' = "constructed"
                /\ io' = Echoes(r.msgs \o t.msgs)
                /\ UNCHANGED <<exit_status, exc>>

Start ==
    /\ pc = "start"
    /\ Construct(git_config, gh)
    /\ UNCHANGED <<workflows, workflow_choices, selected_workflow,
                   selected_workflow_id, runs, run_choices, selected_runs, caller,
                   page, acc, da_runs, batch, mode, resp, git_config, gh>>

\* main.py lines 16-24
CheckManager ==
    /\ pc = "constructed"
    /\ IF ~Truthy(token) THEN Return(io \o <<Echo(MsgTokenRequired)>>)
       ELSE IF ~Truthy(repo) THEN Return(io \o <<Echo(MsgNoRepo)>>)
       ELSE /\ pc' = "WorkflowFetch"
            /\ UNCHANGED <<io, exit_status, exc>>
    /\ UNCHANGED <<repo, token, workflows, workflow_choices, selected_workflow,
                   selected_workflow_id, runs, run_choices, selected_runs, caller,
                   page, acc, da_runs, batch, mode, resp, git_config, gh>>

\* workflowManager.py lines 81-88: one GET; a status other than 200 gives [].
list_workflows(status, body) == IF status # HttpOk THEN <<>> ELSE body

\* main.py lines 27-35: the head of the outer loop.  The locals of the turn
\* before it are dead here and the model clears them.
FetchWorkflows ==
    /\ pc = "WorkflowFetch"
    /\ \E status \in {HttpOk} \cup ListFailures, body \in WorkflowLists :
         LET ws == list_workflows(status, body)
             events == <<Echo("Fetching workflows"), GetWorkflows(status)>>
                         \o (IF status # HttpOk
                             THEN <<Echo("Failed to fetch workflows")>> ELSE <<>>)
         IN  /\ workflows' = ws
             /\ selected_workflow' = <<>>
             /\ selected_workflow_id' = 0
             /\ runs' = <<>>
             /\ run_choices' = <<>>
             /\ selected_runs' = <<>>
             /\ da_runs' = <<>>
             /\ mode' = "none"
             /\ resp' = <<>>
             /\ IF ws = <<>>
                THEN /\ Return(events \o <<Echo("No workflows found.")>>)
                     /\ workflow_choices' = <<>>
                ELSE /\ workflow_choices' =
                          [i \in 1..Len(ws) |-> workflow_label(ws[i])]
                              \o <<SentinelExit>>
                     /\ pc' = "WorkflowSelect"
                     /\ io' = events
                     /\ UNCHANGED <<exit_status, exc>>
    /\ UNCHANGED <<repo, token, caller, page, acc, batch, git_config, gh>>

\* next(w[0] for w in workflows if label(w) == name), main.py line 45
workflow_id_of(ws, name) ==
    LET i == CHOOSE i \in 1..Len(ws) :
                 /\ workflow_label(ws[i]) = name
                 /\ \A j \in 1..(i - 1) : workflow_label(ws[j]) # name
    IN  ws[i].id

\* main.py lines 36-45: the picker's answer at workflow selection.
SelectWorkflow ==
    /\ pc = "WorkflowSelect"
    /\ \E sel \in Selections(workflow_choices) :
         /\ selected_workflow' = sel
         /\ IF \E i \in 1..Len(sel) : sel[i] = SentinelExit
            THEN /\ Return(<<Echo("Exiting without selecting any workflow.")>>)
                 /\ UNCHANGED selected_workflow_id
            ELSE IF sel = <<>>
            THEN /\ Crash("IndexError", <<>>)
                 /\ UNCHANGED selected_workflow_id
            ELSE /\ selected_workflow_id' = workflow_id_of(workflows, sel[1])
                 /\ pc' = "RunFetch"
                 /\ io' = <<>>
                 /\ UNCHANGED <<exit_status, exc>>
    /\ UNCHANGED <<repo, token, workflows, workflow_choices, runs, run_choices,
                   selected_runs, caller, page, acc, da_runs, batch, mode, resp,
                   git_config, gh>>

(***************************************************************************)
(* runs.sort(key=lambda x: x[1].lower()), main.py line 56.  list.sort is   *)
(* stable: runs with equal keys keep their order.                          *)
(***************************************************************************)
\* The key without .lower(): a case-sensitive sort.
sort_key_case_sensitive(run) == run.name

sort_key(run) == lower(run.name)

RECURSIVE insert_run(_, _)
insert_run(sorted, run) ==
    IF sorted = <<>> THEN <<run>>
    ELSE IF StrLe(sort_key(Head(sorted)), sort_key(run))
    THEN <<Head(sorted)>> \o insert_run(Tail(sorted), run)
    ELSE <<run>> \o sorted

RECURSIVE sort_runs(_)
sort_runs(rs) ==
    IF rs = <<>> THEN <<>>
    ELSE insert_run(sort_runs(SubSeq(rs, 1, Len(rs) - 1)), rs[Len(rs)])

\* main.py lines 57-59
make_run_choices(rs) ==
    [i \in 1..Len(rs) |-> run_label(rs[i])] \o <<SentinelDeleteAll, SentinelBack>>

Ids(rs) == [i \in 1..Len(rs) |-> rs[i].id]

(***************************************************************************)
(* list_workflow_runs, workflowManager.py lines 101-120, one GET per step, *)
(* together with what its caller does with the list it returns.            *)
(***************************************************************************)
\* The loop body's exit test, lines 109-115.
last_page(status, data) == status # HttpOk \/ data = <<>>

\* The page assigned to the list instead of appended to it.
accumulate_overwrites(runs_so_far, data) == data

\* runs.extend([...]), line 117
accumulate(runs_so_far, data) == runs_so_far \o data

\* page += 1, line 118
next_page(p) == p + 1

\* The loop started one element late.
delete_all_batch_skips_first(fetched) == Tail(Ids(fetched))

\* for run_id, _, _, _ in runs, line 149
delete_all_batch(fetched) == Ids(fetched)

\* The head of the inner loop in main.py: back to line 48.
NextIteration ==
    /\ pc' = "RunFetch"
    /\ caller' = "main"

\* main.py lines 50-59 once list_workflow_runs has returned fetched.
MainReceivesRuns(fetched, events) ==
    /\ da_runs' = <<>>
    /\ UNCHANGED <<batch, caller>>
    /\ IF fetched = <<>>
       THEN /\ io' = events \o <<Echo("No workflow runs found.")>>
            /\ pc' = "WorkflowFetch"
            /\ runs' = <<>>
            /\ run_choices' = <<>>
       ELSE /\ io' = events
            /\ runs' = sort_runs(fetched)
            /\ run_choices' = make_run_choices(sort_runs(fetched))
            /\ pc' = "RunSelect"

\* workflowManager.py lines 144-149 once list_workflow_runs has returned fetched.
DeleteAllReceivesRuns(fetched, events) ==
    /\ da_runs' = fetched
    /\ UNCHANGED <<runs, run_choices>>
    /\ IF fetched = <<>>
       THEN /\ io' = events \o <<Echo("No workflow runs found for this workflow.")>>
            /\ batch' = <<>>
            /\ NextIteration
       ELSE /\ io' = events
            /\ batch' = delete_all_batch(fetched)
            /\ pc' = "Deleting"
            /\ UNCHANGED caller

\* A new turn of the inner loop starts with the first GET of main's call.  The
\* locals of the turn before it (runs, run_choices, selected_runs, and the runs
\* of a finished delete_all_runs) are dead by then, each is assigned before it
\* is read again, and the model clears them there; so are workflows,
\* workflow_choices and selected_workflow once line 45 has resolved the id.
FetchRunsPage ==
    /\ pc = "RunFetch"
    /\ \E status \in {HttpOk} \cup ListFailures, data \in RunPages :
         \* the API: pages continue the listing, nothing past its last page,
         \* no body read on a failure
         /\ NewestFirst(acc \o data)
         /\ page > MaxPages => data = <<>>
         /\ status # HttpOk => data = <<>>
         /\ LET first == caller = "main" /\ page = 1
                before == IF first THEN <<Echo("Fetching runs")>> ELSE io
                events == before
                            \o <<GetRuns(selected_workflow_id, page, per_page, status)>>
                            \o (IF status # HttpOk
                                THEN <<Echo("Failed to fetch workflow runs")>>
                                ELSE <<>>)
            IN  /\ resp' = (IF page = 1 THEN <<>> ELSE resp)
                             \o <<[status |-> status, data |-> data]>>
                /\ mode' = IF first THEN "none" ELSE mode
                /\ selected_runs' = IF first THEN <<>> ELSE selected_runs
                /\ workflows' = IF first THEN <<>> ELSE workflows
                /\ workflow_choices' = IF first THEN <<>> ELSE workflow_choices
                /\ selected_workflow' = IF first THEN <<>> ELSE selected_workflow
                /\ IF last_page(status, data)
                   THEN /\ page' = 1
                        /\ acc' = <<>>
                        /\ IF caller = "main"
                           THEN MainReceivesRuns(acc, events)
                           ELSE DeleteAllReceivesRuns(acc, events)
                   ELSE /\ acc' = accumulate(acc, data)
                        /\ page' = next_page(page)
                        /\ io' = events
                        /\ runs' = IF first THEN <<>> ELSE runs
                        /\ run_choices' = IF first THEN <<>> ELSE run_choices
                        /\ da_runs' = IF first THEN <<>> ELSE da_runs
                        /\ UNCHANGED <<pc, caller, batch>>
    /\ UNCHANGED <<exit_status, exc, repo, token, selected_workflow_id,
                   git_config, gh>>

(***************************************************************************)
(* main.py lines 60-90: the picker's answer at run selection.              *)
(***************************************************************************)
Contains(sel, item) == \E i \in 1..Len(sel) : sel[i] = item

\* The same tests with "Delete All Runs" looked at before "Back".
run_selection_branch_delete_all_first(sel) ==
    IF Contains(sel, SentinelDeleteAll) THEN "all"
    ELSE IF Contains(sel, SentinelBack) THEN "back"
    ELSE IF sel # <<>> THEN "selected"
    ELSE "nothing"

\* The same tests with a chosen run label looked at before "Delete All Runs".
run_selection_branch_labels_first(sel) ==
    IF Contains(sel, SentinelBack) THEN "back"
    ELSE IF \E i \in 1..Len(sel) : sel[i] # SentinelDeleteAll THEN "selected"
    ELSE IF Contains(sel, SentinelDeleteAll) THEN "all"
    ELSE "nothing"

\* The if / if / elif / else of main.py lines 63, 68, 73 and 88.
run_selection_branch(sel) ==
    IF Contains(sel, SentinelBack) THEN "back"
    ELSE IF Contains(sel, SentinelDeleteAll) THEN "all"
    ELSE IF sel # <<>> THEN "selected"
    ELSE "nothing"

SelectRuns ==
    /\ pc = "RunSelect"
    /\ \E sel \in Selections(run_choices) :
         /\ selected_runs' = sel
         /\ IF run_selection_branch(sel) = "back"
            THEN /\ io' = <<Echo("Returning to workflow selection.")>>
                 /\ pc' = "WorkflowFetch"
                 /\ UNCHANGED caller
            ELSE IF run_selection_branch(sel) = "all"
            THEN /\ pc' = "ConfirmAll"
                 /\ io' = <<>>
                 /\ UNCHANGED caller
            ELSE IF run_selection_branch(sel) = "selected"
            THEN /\ pc' = "ConfirmSelected"
                 /\ io' = <<>>
                 /\ UNCHANGED caller
            ELSE /\ io' = <<Echo("No runs selected. Exiting.")>>
                 /\ NextIteration
    /\ resp' = <<>>
    /\ UNCHANGED <<exit_status, exc, repo, token, workflows, workflow_choices,
                   selected_workflow, selected_workflow_id, runs, run_choices,
                   page, acc, da_runs, batch, mode, git_config, gh>>

\* The test relaxed to any answer that begins with y or Y.
confirmed_by_first_letter(answer) == lower(SubSeq(answer, 1, 1)) = <<"y">>

\* delete_choice.lower() == 'y'
confirmed(answer) == lower(answer) = <<"y">>

\* main.py lines 69-71.  selected_runs is not read again in this turn of the
\* loop, and the model clears it once the call is made.
ConfirmAll ==
    /\ pc = "ConfirmAll"
    /\ \E answer \in Answers :
         /\ io' = io \o <<Prompt("Delete all runs? (y/n)", answer)>>
         /\ IF confirmed(answer)
            THEN /\ mode' = "all"
                 /\ caller' = "delete_all"
                 /\ pc' = "RunFetch"
                 /\ selected_runs' = <<>>
            ELSE /\ NextIteration
                 /\ UNCHANGED <<mode, selected_runs>>
    /\ UNCHANGED <<exit_status, exc, repo, token, workflows, workflow_choices,
                   selected_workflow, selected_workflow_id, runs, run_choices,
                   page, acc, da_runs, batch, resp, git_config, gh>>

\* [int(run.split("(ID: ")[1][:-1]) for run in selected_runs], main.py line 83
selected_ids_ok(sel) == \A i \in 1..Len(sel) : int_ok(id_text(sel[i]))
selected_ids(sel) == [i \in 1..Len(sel) |-> int_val(id_text(sel[i]))]

\* main.py lines 75-83
ConfirmSelected ==
    /\ pc = "ConfirmSelected"
    /\ \E answer \in Answers :
         LET events == io \o <<Prompt("Do you want to delete these? (y/n)", answer)>> IN
         IF confirmed(answer)
         THEN IF selected_ids_ok(selected_runs)
              THEN /\ batch' = selected_ids(selected_runs)
                   /\ mode' = "selected"
                   /\ pc' = "Deleting"
                   /\ io' = events
                   /\ UNCHANGED <<exit_status, exc, caller>>
              ELSE /\ Crash("ValueError", events)
                   /\ UNCHANGED <<batch, mode, caller>>
         ELSE /\ NextIteration
              /\ io' = events
              /\ UNCHANGED <<batch, mode, exit_status, exc>>
    /\ UNCHANGED <<repo, token, workflows, workflow_choices, selected_workflow,
                   selected_workflow_id, runs, run_choices, selected_runs, page,
                   acc, da_runs, resp, git_config, gh>>

\* workflowManager.py lines 132-135: success is exactly 204.
delete_workflow_run(status) == status = HttpNoContent

\* One turn of the for loop of main.py lines 83-87 or of
\* workflowManager.py lines 149-153.
DeleteNext ==
    /\ pc = "Deleting"
    /\ \E status \in DeleteStatuses :
         LET run_id == Head(batch) IN
         /\ io' = io \o <<DeleteRun(run_id, status),
                          IF delete_workflow_run(status)
                          THEN EchoId("Deleted workflow run ID", run_id)
                          ELSE EchoId("Failed to delete workflow run ID", run_id)>>
         /\ batch' = Tail(batch)
         /\ IF Tail(batch) = <<>>
            THEN NextIteration
            ELSE UNCHANGED <<pc, caller>>
    /\ UNCHANGED <<exit_status, exc, repo, token, workflows, workflow_choices,
                   selected_workflow, selected_workflow_id, runs, run_choices,
                   selected_runs, page, acc, da_runs, mode, resp, git_config, gh>>

Next ==
    \/ Start
    \/ CheckManager
    \/ FetchWorkflows
    \/ SelectWorkflow
    \/ FetchRunsPage
    \/ SelectRuns
    \/ ConfirmAll
    \/ ConfirmSelected
    \/ DeleteNext

Spec == Init /\ [][Next]_vars

(***************************************************************************)
(* The constructor and the checks after it, over a wider set of            *)
(* .git/config files.                                                      *)
(***************************************************************************)
InitManager ==
    /\ pc = "start"
    /\ exit_status = -1
    /\ exc = ""
    /\ repo = None
    /\ token = None
    /\ workflows = <<>>
    /\ workflow_choices = <<>>
    /\ selected_workflow = <<>>
    /\ selected_workflow_id = 0
    /\ runs = <<>>
    /\ run_choices = <<>>
    /\ selected_runs = <<>>
    /\ caller = "main"
    /\ page = 1
    /\ acc = <<>>
    /\ da_runs = <<>>
    /\ batch = <<>>
    /\ mode = "none"
    /\ resp = <<>>
    /\ io = <<>>
    /\ \/ git_config \in Configs /\ gh = DefaultGh
       \/ git_config = DefaultConfig /\ gh \in GhEnvs

NextManager == Start \/ CheckManager

SpecManager == InitManager /\ [][NextManager]_vars

(***************************************************************************)
(* Properties.                                                             *)
(***************************************************************************)
IsDelete(e) == e.op = "DELETE run"
IsApiCall(e) == e.op \in {"GET workflows", "GET runs", "DELETE run"}
Deletes(log) == SelectSeq(log, IsDelete)
ApiCalls(log) == SelectSeq(log, IsApiCall)
DeletedIds(log) == [i \in 1..Len(Deletes(log)) |-> Deletes(log)[i].id]
Echoed(log, text) == \E i \in 1..Len(log) : log[i].op = "echo" /\ log[i].text = text

\* C1: when the repository or the credential is Absent the command ends with an
\* error message, a non-zero exit status and no API call; every other way of
\* reaching Exit ends with exit status 0.
C1_InitFailureExitsNonZero ==
    pc = "Exit" =>
        IF repo = None \/ token = None
        THEN /\ exit_status # 0
             /\ ApiCalls(io) = <<>>
             /\ Echoed(io, MsgTokenRequired) \/ Echoed(io, MsgNoRepo)
        ELSE exit_status = 0

\* C2: once the picker at run selection has returned a selection containing
\* "Back", control is at the head of the outer loop (the next step is the
\* workflow listing) and no DELETE has been issued since the picker returned.
C2_BackIssuesNoDelete ==
    Contains(selected_runs, SentinelBack) =>
        /\ pc = "WorkflowFetch"
        /\ Deletes(io) = <<>>
        /\ batch = <<>>

C2_Witness ==
    /\ pc = "WorkflowFetch"
    /\ Contains(selected_runs, SentinelBack)
    /\ Contains(selected_runs, SentinelDeleteAll)

\* The runs on the pages before the first page that is empty or failed.
IsLastPage(r) == r.status # 200 \/ r.data = <<>>

RECURSIVE Fetched(_)
Fetched(rs) ==
    IF rs = <<>> \/ IsLastPage(Head(rs)) THEN <<>>
    ELSE Head(rs).data \o Fetched(Tail(rs))

\* A confirmed batch has just ended: delete_all_runs returned, or the for loop
\* over the selected runs ran out, and the inner loop is about to start over.
BatchDone == pc = "RunFetch" /\ caller = "main" /\ mode # "none"

\* C3 as stated: a confirmed "Delete All Runs" issues exactly one delete for
\* each run that was fetched for display and none for any other id.
C3_DeleteAllDeletesDisplayed ==
    (BatchDone /\ mode = "all") =>
        /\ Len(DeletedIds(io)) = Len(runs)
        /\ Range(DeletedIds(io)) = Range(Ids(runs))

\* C3 amended: a confirmed "Delete All Runs" issues exactly one delete for each
\* run of the list delete_all_runs fetches anew after the confirmation, in that
\* list's (API) order and for no other id, whatever the display order was.
C3_DeleteAllDeletesRefetched ==
    /\ (mode = "all" /\ pc = "Deleting") =>
           DeletedIds(io) \o batch = Ids(Fetched(resp))
    /\ (BatchDone /\ mode = "all") => DeletedIds(io) = Ids(Fetched(resp))

C3_Witness ==
    /\ BatchDone
    /\ mode = "all"
    /\ Len(DeletedIds(io)) = 3
    /\ Range(DeletedIds(io)) = Range(Ids(runs))
    /\ DeletedIds(io) # Ids(runs)

\* The run a chosen label was displayed for.
RunOfLabel(label) == CHOOSE r \in Range(runs) : run_label(r) = label

Report(e) ==
    EchoId(IF e.status = 204 THEN "Deleted workflow run ID"
           ELSE "Failed to delete workflow run ID", e.id)

\* C4: in a confirmed batch every run of the batch gets one delete request,
\* whatever the earlier responses were, and one report after it, success for 204
\* and failure otherwise, naming that run's id.
C4_BatchReportsEveryRun ==
    BatchDone =>
        LET targets ==
                IF mode = "all" THEN Ids(da_runs)
                ELSE [i \in 1..Len(selected_runs) |->
                         RunOfLabel(selected_runs[i]).id]
            log == SelectSeq(io, LAMBDA e : e.op # "prompt" /\ e.op # "GET runs"
                                            /\ e.text # "Failed to fetch workflow runs"
                                            /\ e.text # "No workflow runs found for this workflow.")
        IN  /\ DeletedIds(io) = targets
            /\ Len(log) = 2 * Len(targets)
            /\ \A i \in 1..Len(targets) :
                   /\ IsDelete(log[2 * i - 1])
                   /\ log[2 * i] = Report(log[2 * i - 1])

\* Pages requested by the GET runs requests of a log, in order.
RunGets(log) == SelectSeq(log, LAMBDA e : e.op = "GET runs")

\* C5: list_workflow_runs requests pages 1, 2, 3, ... with per_page=100, stops at
\* the first page k that is empty or has a status other than 200, and returns
\* the concatenation, in API order, of pages 1..k-1: the partial result when
\* page k failed.
C5_Pagination ==
    resp # <<>> =>
        LET k == Len(resp)
            gets == RunGets(io)
        IN  /\ \A i \in 1..(k - 1) : ~IsLastPage(resp[i])
            /\ Len(gets) = k
            /\ \A i \in 1..k : gets[i].page = i /\ gets[i].per_page = 100
            /\ pc # "Crashed"
            /\ IF IsLastPage(resp[k])
               THEN IF mode = "all" THEN da_runs = Fetched(resp)
                    ELSE runs = sort_runs(Fetched(resp))
               ELSE /\ pc = "RunFetch"
                    /\ page = k + 1
                    /\ acc = Fetched(resp)

C5_Witness ==
    /\ Len(resp) = 2
    /\ resp[2].status = 500
    /\ mode = "all"
    /\ da_runs = resp[1].data
    /\ Len(da_runs) = 2

\* The label of a run, as the picker shows it.
LabelOf(r) ==
    r.name \o <<" - Created: ">> \o r.created_at \o <<" - Status: ">> \o r.status
        \o <<" ", "(ID: ">> \o str_int(r.id) \o <<")">>

\* C6: the run choices are the labels of a permutation of the fetched runs in
\* non-decreasing order of the lowercased name, each label built from the name,
\* created_at, status and id of one fetched run, followed by the two sentinels.
C6_SortedChoices ==
    pc = "RunSelect" =>
        LET fetched == Fetched(resp)
            n == Len(fetched)
        IN  /\ Len(runs) = n
            /\ Range(runs) = Range(fetched)
            /\ \A i, j \in 1..n :
                   i < j => StrLe(lower(runs[i].name), lower(runs[j].name))
            /\ Len(run_choices) = n + 2
            /\ \A i \in 1..n :
                   \E r \in Range(fetched) : r = runs[i] /\ run_choices[i] = LabelOf(r)
            /\ run_choices[n + 1] = SentinelDeleteAll
            /\ run_choices[n + 2] = SentinelBack

C6_Witness ==
    /\ pc = "RunSelect"
    /\ Len(runs) >= 3
    /\ runs # Fetched(resp)

\* C7: the id parsed back out of every displayed run label is the id of the run
\* the label describes, and parsing a chosen label never fails.
C7_LabelRoundTrip ==
    /\ pc = "RunSelect" =>
           \A i \in 1..Len(runs) :
               /\ int_ok(id_text(run_choices[i]))
               /\ int_val(id_text(run_choices[i])) = runs[i].id
    /\ ~(pc = "Crashed" /\ exc = "ValueError")

\* C8: an empty selection is a cancel and never a crash: at workflow selection
\* the command does not raise, at run selection it reports that no runs were
\* selected and issues no delete.
C8_EmptySelectionIsCancel ==
    /\ ~(pc = "Crashed" /\ workflow_choices # <<>> /\ selected_workflow = <<>>)
    /\ (pc = "RunFetch" /\ caller = "main" /\ mode = "none" /\ runs # <<>>
            /\ selected_runs = <<>>) =>
           io = <<Echo("No runs selected. Exiting.")>>

\* The gh CLI fails to hand over a token: it is missing, the login that follows
\* a failed status check fails, or the token command fails or prints nothing.
TokenFailure(g) ==
    \/ ~g.installed
    \/ g.status_rc # 0 /\ g.login_rc # 0
    \/ g.token_rc # 0
    \/ strip(g.token_out) = <<>>

\* C9: __get_gh_token never raises and answers a non-empty token or Absent:
\* Absent on every failure path, never an empty string, and a missing gh is
\* reported with a message of its own.
C9_TokenOrAbsent ==
    pc # "start" =>
        /\ pc # "Crashed"
        /\ token = None \/ token.val # <<>>
        /\ TokenFailure(gh) => token = None
        /\ ~gh.installed =>
               /\ Echoed(io, MsgGhMissing)
               /\ ~Echoed(io, MsgNotAuthenticated)
               /\ ~Echoed(io, MsgTokenFailed)

IsUrlLine(line) == startswith(strip(line), "url = ")
IsGithubUrlLine(line) == IsUrlLine(line) /\ find(line, "github.com/") # 0

\* The text after "github.com/" on a line, less a trailing ".git".
RepoOfLine(line) ==
    LET url == strip(SubSeq(line, find(line, "url = ") + 1, Len(line)))
        path == SubSeq(url, find(url, "github.com/") + 1, Len(url))
    IN  IF path # <<>> /\ path[Len(path)] = ".git"
        THEN SubSeq(path, 1, Len(path) - 1) ELSE path

\* What C10 says the repository locator answers for a config.
StatedRepo(cfg) ==
    IF ~cfg.readable \/ ~\E i \in 1..Len(cfg.lines) : IsGithubUrlLine(cfg.lines[i])
    THEN None
    ELSE LET i == CHOOSE i \in 1..Len(cfg.lines) :
                      /\ IsGithubUrlLine(cfg.lines[i])
                      /\ \A j \in 1..(i - 1) : ~IsGithubUrlLine(cfg.lines[j])
         IN  Some(RepoOfLine(cfg.lines[i]))

\* C10: __get_repo_info answers, for the first "url = " line that contains
\* "github.com/", the text after "github.com/" with only a trailing ".git"
\* removed, and Absent when there is no such line or no readable config.
C10_RepoLocator ==
    pc # "start" => pc # "Crashed" /\ repo = StatedRepo(git_config)

\* The steps of the inner loop of main.py, lines 47-90.
InnerLoop == {"RunFetch", "RunSelect", "ConfirmAll", "ConfirmSelected", "Deleting"}

\* Control is at the head of the inner loop: the next step is the first GET of
\* a new list_workflow_runs call made by main.
AtRefetch == pc = "RunFetch" /\ caller = "main" /\ page = 1 /\ acc = <<>>

\* The answer typed at the prompt that ends a log.
LastAnswer(log) == log[Len(log)].answer

\* C11: no step of the inner loop ends the process; a finished batch, a
\* declined confirmation and an empty selection each lead to the head of the
\* inner loop, where the runs of the same workflow are requested anew from
\* page 1; run selection is entered only with a freshly fetched non-empty list;
\* the inner loop is left for the workflow listing only by "Back" or by an empty
\* fetched list; and workflow selection is entered only by a step that has
\* requested the workflows.
C11_AlwaysRefetch ==
    [][ /\ pc \in InnerLoop =>
            /\ pc' \notin {"Exit", "Crashed"}
            /\ pc' \in InnerLoop => selected_workflow_id' = selected_workflow_id
            /\ (pc = "Deleting" /\ batch' = <<>>) => AtRefetch'
            /\ (pc = "RunFetch" /\ caller = "delete_all" /\ pc' # "Deleting"
                    /\ page' = 1) => AtRefetch'
            /\ (pc \in {"ConfirmAll", "ConfirmSelected"}
                    /\ ~confirmed(LastAnswer(io'))) => AtRefetch'
            /\ (pc = "RunSelect" /\ selected_runs' = <<>>) => AtRefetch'
            /\ pc = "RunFetch" =>
                   LET gets == RunGets(io')
                   IN  /\ Len(gets) = page
                       /\ gets[page].page = page
                       /\ gets[page].id = selected_workflow_id
            /\ pc' = "RunSelect" =>
                   /\ pc = "RunFetch" /\ caller = "main"
                   /\ Fetched(resp') # <<>>
            /\ pc' = "WorkflowFetch" =>
                   \/ pc = "RunSelect" /\ Contains(selected_runs', SentinelBack)
                   \/ pc = "RunFetch" /\ caller = "main" /\ Fetched(resp') = <<>>
        /\ pc' = "WorkflowSelect" =>
              /\ pc = "WorkflowFetch"
              /\ \E i \in 1..Len(io') : io'[i].op = "GET workflows"
      ]_vars

\* A confirmed batch is under way or has just ended.
BatchRunning == mode # "none" /\ (pc = "Deleting" \/ BatchDone)

\* The list the for loop of the batch iterates over: the run ids of
\* delete_all_runs' list (workflowManager.py line 149) or the ids read from the
\* chosen labels (main.py line 83).
BatchList ==
    IF mode = "all" THEN Ids(da_runs) ELSE selected_ids(selected_runs)

IsReport(e) ==
    /\ e.op = "echo"
    /\ e.text \in {"Deleted workflow run ID", "Failed to delete workflow run ID"}

\* C12: in a confirmed batch the DELETE requests follow the order of the batch's
\* list, one per turn; each is followed by its report before the next request;
\* the report is a success exactly when the status is 204; and no run id gets
\* more than one DELETE in the batch.
C12_SequentialOneShot ==
    BatchRunning =>
        LET log == SelectSeq(io, LAMBDA e : IsDelete(e) \/ IsReport(e))
            n == Len(Deletes(io))
        IN  /\ DeletedIds(io) \o batch = BatchList
            /\ Len(log) = 2 * n
            /\ \A i \in 1..n :
                   /\ IsDelete(log[2 * i - 1])
                   /\ IsReport(log[2 * i])
                   /\ log[2 * i].id = log[2 * i - 1].id
                   /\ log[2 * i].text = "Deleted workflow run ID"
                          <=> log[2 * i - 1].status = 204
            /\ Injective(DeletedIds(io))

IsPrompt(e) == e.op = "prompt"
Prompts(log) == SelectSeq(log, IsPrompt)

\* The answers the claim takes for a yes.
YesAnswers == {<<"y">>, <<"Y">>}

\* C13: the log of one turn of the inner loop holds at most one confirmation
\* prompt; a DELETE, issued or pending, has that prompt before it, answered y
\* or Y; after any other answer the turn has no DELETE and no pending batch, the
\* process has not crashed, and control is at the head of the inner loop.
C13_NoDeleteWithoutConfirmation ==
    /\ Len(Prompts(io)) <= 1
    /\ (Deletes(io) # <<>> \/ batch # <<>> \/ pc = "Deleting") =>
           /\ Len(Prompts(io)) = 1
           /\ Prompts(io)[1].answer \in YesAnswers
           /\ \A i, j \in 1..Len(io) :
                  (IsPrompt(io[i]) /\ IsDelete(io[j])) => i < j
    /\ (Prompts(io) # <<>> /\ Prompts(io)[1].answer \notin YesAnswers) =>
           /\ Deletes(io) = <<>>
           /\ batch = <<>>
           /\ pc # "Crashed"
           /\ AtRefetch /\ mode = "none"

C13_Witness ==
    /\ Prompts(io) # <<>>
    /\ Prompts(io)[1].answer = <<"Y">>
    /\ Len(Deletes(io)) = 2
    /\ mode = "selected"
    /\ BatchDone

\* A selection holds a line that is not one of the two sentinels.
HasRunLabel(sel) ==
    \E i \in 1..Len(sel) : sel[i] \notin {SentinelDeleteAll, SentinelBack}

\* C14, the states: a run selection with "Back" in it leads to the workflow
\* listing with no prompt, no DELETE and no batch; the delete-all prompt is
\* reached exactly by selections with "Delete All Runs" and without "Back", the
\* selected-runs prompt only by selections without a sentinel; a delete-all
\* batch is the whole list its fetch returned; a workflow selection with "Exit"
\* in it ends the process with no API call; any other acts on its first line.
C14_PrecedenceStates ==
    /\ Contains(selected_runs, SentinelBack) =>
           /\ pc = "WorkflowFetch"
           /\ Prompts(io) = <<>> /\ Deletes(io) = <<>> /\ batch = <<>>
    /\ pc = "ConfirmAll" =>
           /\ Contains(selected_runs, SentinelDeleteAll)
           /\ ~Contains(selected_runs, SentinelBack)
    /\ (pc = "ConfirmSelected" \/ mode = "selected") =>
           /\ selected_runs # <<>>
           /\ ~Contains(selected_runs, SentinelDeleteAll)
           /\ ~Contains(selected_runs, SentinelBack)
    /\ (mode = "all" /\ pc = "Deleting") =>
           /\ da_runs = Fetched(resp)
           /\ DeletedIds(io) \o batch = Ids(da_runs)
    /\ Contains(selected_workflow, SentinelExit) =>
           /\ pc = "Exit" /\ exit_status = 0
           /\ ApiCalls(io) = <<>>
    /\ (pc = "RunFetch" /\ selected_workflow # <<>>) =>
           \E i \in 1..Len(workflows) :
               /\ workflow_label(workflows[i]) = selected_workflow[1]
               /\ selected_workflow_id = workflows[i].id

\* C14, the steps: a run selection with "Delete All Runs" and without "Back"
\* goes to the delete-all prompt whatever run labels it holds; a yes there
\* calls delete_all_runs; and the batch that call starts is every run its fetch
\* returned.
C14_PrecedenceSteps ==
    /\ (pc = "RunSelect" /\ Contains(selected_runs', SentinelDeleteAll)
            /\ ~Contains(selected_runs', SentinelBack)) =>
           pc' = "ConfirmAll"
    /\ (pc = "ConfirmAll" /\ LastAnswer(io') \in YesAnswers) =>
           /\ pc' = "RunFetch" /\ caller' = "delete_all" /\ mode' = "all"
           /\ page' = 1 /\ acc' = <<>> /\ batch' = <<>>
    /\ (pc = "RunFetch" /\ caller = "delete_all" /\ page' = 1) =>
           /\ batch' = Ids(Fetched(resp'))
           /\ pc' = IF batch' = <<>> THEN "RunFetch" ELSE "Deleting"

\* C14: sentinel precedence at run selection is Back, then Delete All Runs,
\* then the chosen runs: "Back" with anything else deletes nothing and returns
\* to the workflow listing; "Delete All Runs" with run labels deletes, once
\* confirmed, every run the workflow's listing returns and not the chosen ones;
\* at workflow selection "Exit" wins over any workflow chosen with it, and of
\* several chosen workflows only the first is acted on.
C14_SentinelPrecedence == []C14_PrecedenceStates /\ [][C14_PrecedenceSteps]_vars

C14_Witness ==
    /\ pc = "ConfirmAll"
    /\ Contains(selected_runs, SentinelDeleteAll)
    /\ HasRunLabel(selected_runs)
    /\ selected_runs[1] # SentinelDeleteAll

====
